---- MODULE Spec2Model ----
(***************************************************************************)
(* Model of src/main.py (pa-permission-denied-simulator): main validates   *)
(* the command line, process_path walks the target and                     *)
(* apply_permission_change chmods one entry unless the exclusion spec      *)
(* matches it.                                                             *)
(*                                                                         *)
(* The file system is a POSIX one (os.name = 'posix') without symbolic     *)
(* links whose directory entries carry their type, so os.walk classifies   *)
(* entries without a stat call.  The invoking user owns every entry; an    *)
(* entry in `unchangeable` makes chmod fail (EPERM, e.g. immutable flag).  *)
(* Permission strings are drawn from the characters 0-9 and a-c, on which  *)
(* int(s, 8) accepts exactly the strings of octal digits.                  *)
(***************************************************************************)
EXTENDS Integers, Sequences, FiniteSets, TLC

(* ------------------------------ bounds -------------------------------- *)
MaxDepth == 3
MaxUnchangeable == 1
MaxPermLen == 5

(* --------------------------- the file tree ---------------------------- *)
Root == "d"
Universe ==
  {"d", "a.txt", "sub", "sub2", "b.txt", "deep", "e.txt", "c.txt", "deeper", "f.txt"}
Dirs == {"d", "sub", "sub2", "deep", "deeper"}

Parent(e) ==
  CASE e = "a.txt" -> "d"
    [] e = "sub"   -> "d"
    [] e = "sub2"  -> "d"
    [] e = "b.txt" -> "sub"
    [] e = "deep"  -> "sub"
    [] e = "e.txt" -> "sub2"
    [] e = "c.txt" -> "deep"
    [] e = "deeper" -> "deep"
    [] e = "f.txt" -> "deeper"
    [] OTHER       -> "d"

RECURSIVE Depth(_)
Depth(e) == IF e = Root THEN 0 ELSE 1 + Depth(Parent(e))

RECURSIVE ProperAncestors(_)
ProperAncestors(e) ==
  IF e = Root THEN {} ELSE {Parent(e)} \cup ProperAncestors(Parent(e))

\* the absolute path main resolves: /w/d/... as its segments
RECURSIVE PathOf(_)
PathOf(e) == IF e = Root THEN <<"w", "d">> ELSE Append(PathOf(Parent(e)), e)

Below(k) == {e \in Universe : Depth(e) <= k}

\* modes before the run: directories rwx------, files rw-r--r--
InitMode(e) == IF e \in Dirs THEN 448 ELSE 420

(* ------------------------- permission strings ------------------------- *)
NoArg == <<"-">>

PermCandidates ==
  { <<>>, <<"7", "7">>, <<"7", "5", "5">>, <<"0", "7", "5", "5">>,
    <<"a", "b", "c">>, <<"9", "9", "9">>, <<"4", "4", "4">>,
    <<"3", "1", "1">>, <<"5", "0", "0">>, <<"0", "0", "7", "5", "5">>,
    <<"0", "0", "0", "7", "5", "5">> }
PermInputs == {NoArg} \cup {s \in PermCandidates : Len(s) <= MaxPermLen}

OctalDigits == {"0", "1", "2", "3", "4", "5", "6", "7"}
DigitVal(c) ==
  CASE c = "0" -> 0 [] c = "1" -> 1 [] c = "2" -> 2 [] c = "3" -> 3
    [] c = "4" -> 4 [] c = "5" -> 5 [] c = "6" -> 6 [] c = "7" -> 7
    [] OTHER -> 0

\* int(s, 8) raises ValueError unless s is a non-empty string of octal digits
ParsesOctal(s) == Len(s) > 0 /\ \A i \in 1..Len(s) : s[i] \in OctalDigits

RECURSIVE OctalValue(_)
OctalValue(s) ==
  IF Len(s) = 0 THEN 0
  ELSE 8 * OctalValue(SubSeq(s, 1, Len(s) - 1)) + DigitVal(s[Len(s)])

\* truthiness of the Optional[str] argument: None and "" are both falsy
Truthy(s) == s # NoArg /\ Len(s) > 0

RBit(m) == (m \div 256) % 2 = 1
XBit(m) == (m \div 64) % 2 = 1

(* --------------------------- exclusion spec --------------------------- *)
\* a pattern line: neg is the leading "!", segs is the rest split on "/"
Line(neg, segs) == [neg |-> neg, segs |-> segs]

\* no --exclude argument (or an empty one): exclude_spec is None
NoExclude == <<>>

ExcludeInputs ==
  { NoExclude,
    << Line(FALSE, <<"sub", "**">>) >>,
    << Line(FALSE, <<"sub">>) >>,
    << Line(FALSE, <<"sub">>), Line(TRUE, <<"b.txt">>) >>,
    << Line(FALSE, <<"d">>) >>,
    << Line(FALSE, <<"x**y">>) >> }

\* a segment glob holding "**" is rejected when the pattern is compiled
Uncompilable(lines) == \E i \in 1..Len(lines) : "x**y" \in {lines[i].segs[j] : j \in 1..Len(lines[i].segs)}

\* GitWildMatchPattern: a leading "/" anchors, a pattern of one segment (or
\* one segment and a trailing "/") matches at any depth, any other pattern
\* is anchored at the start of the path; a trailing "/" covers descendants
Anchor(segs) ==
  IF segs[1] = "" THEN Tail(segs)
  ELSE IF Len(segs) = 1 \/ (Len(segs) = 2 /\ segs[2] = "")
       THEN (IF segs[1] = "**" THEN segs ELSE <<"**">> \o segs)
       ELSE segs

DirTail(segs) ==
  IF Len(segs) > 1 /\ segs[Len(segs)] = ""
  THEN [segs EXCEPT ![Len(segs)] = "**"] ELSE segs

\* tokens: "**1" one or more segments, "**0" zero or more, "*" one, a name
Tokens(segs) ==
  LET n == Len(segs)
      body == [i \in 1..n |->
                 IF segs[i] = "**" THEN (IF i = n THEN "**1" ELSE "**0")
                 ELSE segs[i]]
  IN IF segs[n] = "**" THEN body ELSE Append(body, "**0")

Compile(segs) == Tokens(DirTail(Anchor(segs)))

RECURSIVE MatchTokens(_, _)
MatchTokens(toks, path) ==
  IF Len(toks) = 0 THEN Len(path) = 0
  ELSE LET t == Head(toks) IN
    CASE t = "**0" ->
           \E k \in 0..Len(path) : MatchTokens(Tail(toks), SubSeq(path, k + 1, Len(path)))
      [] t = "**1" ->
           \E k \in 1..Len(path) : MatchTokens(Tail(toks), SubSeq(path, k + 1, Len(path)))
      [] t = "*" ->
           Len(path) > 0 /\ MatchTokens(Tail(toks), Tail(path))
      [] OTHER ->
           Len(path) > 0 /\ Head(path) = t /\ MatchTokens(Tail(toks), Tail(path))

\* PathSpec.match_file: the last matching pattern decides
RECURSIVE MatchFile(_, _)
MatchFile(lines, path) ==
  IF Len(lines) = 0 THEN FALSE
  ELSE LET last == lines[Len(lines)] IN
    IF MatchTokens(Compile(last.segs), path) THEN ~last.neg
    ELSE MatchFile(SubSeq(lines, 1, Len(lines) - 1), path)

VARIABLES present, rootKind, mode, permissions, recursive, exclude_pattern,
          euid0, pathlibRaises, unchangeable,
          pc, exitCode, exc, outcome, applyCount,
          stack, curRoot, pendFiles, pendNames, enumerated, enumFailed

vars == <<present, rootKind, mode, permissions, recursive, exclude_pattern,
          euid0, pathlibRaises, unchangeable,
          pc, exitCode, exc, outcome, applyCount,
          stack, curRoot, pendFiles, pendNames, enumerated, enumFailed>>

inputs == <<present, rootKind, permissions, recursive, exclude_pattern,
            euid0, pathlibRaises, unchangeable>>
walkVars == <<stack, curRoot, pendFiles, pendNames, enumerated, enumFailed>>

Children(d) == {e \in present : e # Root /\ Parent(e) = d}
IsDir(e) == IF e = Root THEN rootKind = "dir" ELSE e \in Dirs

Matches(e) == MatchFile(exclude_pattern, PathOf(e))

ExcludedNever(e) == FALSE

\* exclude_spec and exclude_spec.match_file(str(target_path))
Excluded(e) == Len(exclude_pattern) > 0 /\ Matches(e)

\* path resolution down to e needs search permission on every ancestor
CanSearch(e) == euid0 \/ \A a \in ProperAncestors(e) : XBit(mode[a])
CanList(d) == euid0 \/ (CanSearch(d) /\ RBit(mode[d]))
ChmodOk(e) == e \notin unchangeable /\ CanSearch(e)

Init ==
  /\ rootKind \in {"missing", "file", "dir"}
  /\ present \in (IF rootKind = "missing" THEN {{}}
                  ELSE IF rootKind = "file" THEN {{Root}}
                  ELSE {Below(k) : k \in 0..MaxDepth})
  /\ mode = [e \in Universe |-> InitMode(e)]
  /\ permissions \in PermInputs
  /\ recursive \in BOOLEAN
  /\ exclude_pattern \in ExcludeInputs
  /\ euid0 \in BOOLEAN
  /\ pathlibRaises \in (IF euid0 THEN {TRUE} ELSE BOOLEAN)
  /\ unchangeable \in {u \in SUBSET present : Cardinality(u) <= MaxUnchangeable}
  /\ pc = "main"
  /\ exitCode = -1
  /\ exc = "none"
  /\ outcome = [e \in Universe |-> "None"]
  /\ applyCount = [e \in Universe |-> 0]
  /\ stack = <<>>
  /\ curRoot = Root
  /\ pendFiles = {}
  /\ pendNames = {}
  /\ enumerated = {}
  /\ enumFailed = {}

\* the result of apply_permission_change on e, as what it logs
ApplyOutcome(e) ==
  IF Excluded(e) THEN "Skipped"
  ELSE IF Truthy(permissions)
       THEN (IF ~ParsesOctal(permissions) THEN "Invalid"
             ELSE IF ChmodOk(e) THEN "Applied" ELSE "Failed")
       ELSE (IF ChmodOk(e) THEN "Applied" ELSE "Failed")

TargetMode == IF Truthy(permissions) THEN OctalValue(permissions) ELSE 0

apply_permission_change(e) ==
  /\ outcome' = [outcome EXCEPT ![e] = ApplyOutcome(e)]
  /\ applyCount' = [applyCount EXCEPT ![e] = @ + 1]
  /\ mode' = IF ApplyOutcome(e) = "Applied"
             THEN [mode EXCEPT ![e] = TargetMode] ELSE mode

Return(code) == pc' = "done" /\ exitCode' = code

DescendsAlways == IsDir(Root)

\* elif target_path.is_dir(): ... if recursive:
Descends == IsDir(Root) /\ recursive

WalkedFilesWithDirs(d) == Children(d)

WalkedFilesNone(d) == {}

\* the files os.walk yields for d
WalkedFiles(d) == {e \in Children(d) : ~IsDir(e)}

ListedNamesFilesOnly(d) == {e \in Children(d) : ~IsDir(e)}

\* the names os.listdir(d) returns
ListedNames(d) == Children(d)

RestStopOnFailure(pending, e) ==
  IF ApplyOutcome(e) = "Failed" THEN {} ELSE pending \ {e}

\* the for loop goes on with the other entries whatever apply logged
Rest(pending, e) == pending \ {e}

main ==
  /\ pc = "main"
  /\ UNCHANGED <<inputs, mode, outcome, applyCount, walkVars, exc>>
  /\ IF Len(exclude_pattern) > 0 /\ Uncompilable(exclude_pattern)
     THEN Return(1)
     ELSE IF Root \notin present
     THEN Return(1)
     ELSE IF Truthy(permissions) /\ ~(Len(permissions) = 3 \/ Len(permissions) = 4)
     THEN Return(1)
     ELSE pc' = "process" /\ exitCode' = exitCode

process_path ==
  /\ pc = "process"
  /\ UNCHANGED <<inputs, curRoot, pendFiles, pendNames, enumerated, enumFailed, exc>>
  /\ IF Root \notin present
     THEN Return(1) /\ UNCHANGED <<mode, outcome, applyCount, stack>>
     ELSE /\ apply_permission_change(Root)
          /\ IF Descends
             THEN pc' = "walk" /\ stack' = <<Root>> /\ exitCode' = exitCode
             ELSE Return(0) /\ stack' = stack

\* an uncaught exception ends the interpreter with a traceback and status 1
Raise(name) == pc' = "done" /\ exitCode' = 1 /\ exc' = name

\* os.walk is exhausted: the for loop ends and process_path returns 0
walk_done ==
  /\ pc = "walk"
  /\ stack = <<>>
  /\ Return(0)
  /\ UNCHANGED <<inputs, mode, outcome, applyCount, walkVars, exc>>

\* os.walk scans the next directory and yields it with its files
walk_yield ==
  /\ pc = "walk"
  /\ stack # <<>>
  /\ CanList(Head(stack))
  /\ curRoot' = Head(stack)
  /\ stack' = Tail(stack)
  /\ enumerated' = enumerated \cup {Head(stack)}
  /\ pendFiles' = WalkedFiles(Head(stack))
  /\ pc' = "files"
  /\ UNCHANGED <<inputs, mode, outcome, applyCount, pendNames, enumFailed, exitCode, exc>>

\* scandir fails and, onerror being None, os.walk drops the directory
walk_scandir_error ==
  /\ pc = "walk"
  /\ stack # <<>>
  /\ ~CanList(Head(stack))
  /\ stack' = Tail(stack)
  /\ enumFailed' = enumFailed \cup {Head(stack)}
  /\ UNCHANGED <<inputs, mode, outcome, applyCount, curRoot, pendFiles, pendNames,
                 enumerated, pc, exitCode, exc>>

\* for file in files: apply_permission_change(file_path, ...)
apply_file ==
  /\ pc = "files"
  /\ \E f \in pendFiles :
       /\ apply_permission_change(f)
       /\ pendFiles' = Rest(pendFiles, f)
  /\ UNCHANGED <<inputs, stack, curRoot, pendNames, enumerated, enumFailed,
                 pc, exitCode, exc>>

\* os.listdir(root), evaluated once when the second loop starts
list_dir ==
  /\ pc = "files"
  /\ pendFiles = {}
  /\ UNCHANGED <<inputs, mode, outcome, applyCount, stack, curRoot, pendFiles,
                 enumerated, enumFailed>>
  /\ IF CanList(curRoot)
     THEN pc' = "dirs" /\ pendNames' = ListedNames(curRoot) /\ UNCHANGED <<exitCode, exc>>
     ELSE Raise("PermissionError") /\ pendNames' = pendNames

\* dir_path.is_dir() is true: apply_permission_change(dir_path, ...)
apply_dir ==
  /\ pc = "dirs"
  /\ \E n \in pendNames :
       /\ CanSearch(n)
       /\ IsDir(n)
       /\ apply_permission_change(n)
       /\ pendNames' = Rest(pendNames, n)
  /\ UNCHANGED <<inputs, stack, curRoot, pendFiles, enumerated, enumFailed,
                 pc, exitCode, exc>>

\* dir_path.is_dir() is false: a file, or a stat error that pathlib hides
skip_name ==
  /\ pc = "dirs"
  /\ \E n \in pendNames :
       /\ (CanSearch(n) /\ ~IsDir(n)) \/ (~CanSearch(n) /\ ~pathlibRaises)
       /\ pendNames' = pendNames \ {n}
  /\ UNCHANGED <<inputs, mode, outcome, applyCount, stack, curRoot, pendFiles,
                 enumerated, enumFailed, pc, exitCode, exc>>

\* dir_path.is_dir() raises PermissionError (EACCES is not an ignored errno)
is_dir_raises ==
  /\ pc = "dirs"
  /\ \E n \in pendNames : ~CanSearch(n) /\ pathlibRaises
  /\ Raise("PermissionError")
  /\ UNCHANGED <<inputs, mode, outcome, applyCount, walkVars>>

Orders(S) ==
  {s \in [1..Cardinality(S) -> S] : \A i, j \in 1..Cardinality(S) : s[i] = s[j] => i = j}

\* the loop body ends: os.walk descends into the directories it listed
walk_resume ==
  /\ pc = "dirs"
  /\ pendNames = {}
  /\ \E order \in Orders({e \in Children(curRoot) : IsDir(e)}) :
       stack' = order \o stack
  /\ pc' = "walk"
  /\ UNCHANGED <<inputs, mode, outcome, applyCount, curRoot, pendFiles, pendNames,
                 enumerated, enumFailed, exitCode, exc>>

Next ==
  \/ main
  \/ process_path
  \/ walk_done
  \/ walk_yield
  \/ walk_scandir_error
  \/ apply_file
  \/ list_dir
  \/ apply_dir
  \/ skip_name
  \/ is_dir_raises
  \/ walk_resume

Spec == Init /\ [][Next]_vars

(* ------------------------------ claims -------------------------------- *)
Done == pc = "done"

\* main let the run through to process_path
MainAccepted ==
  /\ ~(Len(exclude_pattern) > 0 /\ Uncompilable(exclude_pattern))
  /\ Root \in present
  /\ ~(Truthy(permissions) /\ ~(Len(permissions) = 3 \/ Len(permissions) = 4))

\* the permission argument is absent, or 3 or 4 octal digits
ValidDirective ==
  \/ permissions = NoArg
  \/ (Len(permissions) \in {3, 4} /\ ParsesOctal(permissions))

\* the permission argument is present but not 3 or 4 octal digits
PresentInvalid == permissions # NoArg /\ ~ValidDirective

Untouched(e) == mode[e] = InitMode(e)

\* os.chmod is reached: the string is falsy (remove all) or int(s, 8) parses it
ChmodReached == ~Truthy(permissions) \/ ParsesOctal(permissions)

\* C1: a finished run on an existing root returns 0 only if no visited entry
\* is Failed; one Failed entry makes the exit status non-zero.
C1_ExitReflectsFailures ==
  (Done /\ Root \in present /\ \E e \in present : outcome[e] = "Failed")
    => exitCode # 0

\* C2: a present but invalid permission string ends the run with exit code
\* 1 before any entry is visited, and every mode is what it was.
C2_InvalidRejectedBeforeMutation ==
  (Done /\ PresentInvalid)
    => /\ exitCode = 1
       /\ \A e \in Universe : Untouched(e) /\ applyCount[e] = 0

\* C3: an entry the exclusion matcher matches is never chmod'ed: its mode is
\* its mode before the run and its outcome is Skipped, never Applied or Failed.
C3_ExcludedUntouched ==
  \A e \in Universe :
    Matches(e) => /\ Untouched(e)
                   /\ outcome[e] \in {"None", "Skipped"}
                   /\ (applyCount[e] > 0 => outcome[e] = "Skipped")

C3_Witness ==
  /\ Done
  /\ recursive
  /\ \E e \in present : Matches(e) /\ applyCount[e] = 1 /\ outcome[e] = "Skipped"
  /\ \E e \in present : e # Root /\ outcome[e] = "Applied" /\ ~Untouched(e)

\* C4 as stated: without --recursive a directory root alone is visited, its
\* mode becomes the directive's mode and no descendant changes, for every
\* tree and every (valid) directive.
C4_RootAlwaysChanged ==
  (Done /\ MainAccepted /\ ValidDirective /\ rootKind = "dir" /\ ~recursive)
    => /\ applyCount[Root] = 1
       /\ mode[Root] = TargetMode
       /\ \A e \in Universe \ {Root} : applyCount[e] = 0 /\ Untouched(e)

\* C4 amended: without --recursive a directory root alone is visited and no
\* descendant changes; the root's mode becomes the directive's mode when the
\* root is not excluded and its chmod succeeds, and is left as it was otherwise.
C4_NonRecursiveOnlyRoot ==
  (Done /\ MainAccepted /\ rootKind = "dir" /\ ~recursive)
    => /\ applyCount[Root] = 1
       /\ \A e \in Universe \ {Root} : applyCount[e] = 0 /\ Untouched(e)
       /\ IF ~Matches(Root) /\ ChmodReached /\ ChmodOk(Root)
          THEN outcome[Root] = "Applied" /\ mode[Root] = TargetMode
          ELSE outcome[Root] # "Applied" /\ Untouched(Root)

C4_Witness ==
  /\ Done
  /\ rootKind = "dir"
  /\ ~recursive
  /\ present = Below(MaxDepth)
  /\ outcome[Root] = "Applied"
  /\ mode[Root] = TargetMode
  /\ ~Untouched(Root)

\* C5: a recursive run with no exclusion, a valid explicit mode that keeps
\* directories listable and searchable, and no chmod failing leaves the root
\* and every descendant with exactly that mode, and exits 0.
C5_RecursiveAppliesEverywhere ==
  (/\ Done
   /\ MainAccepted
   /\ rootKind = "dir"
   /\ recursive
   /\ exclude_pattern = NoExclude
   /\ Truthy(permissions) /\ ValidDirective
   /\ RBit(TargetMode) /\ XBit(TargetMode)
   /\ \A e \in present : outcome[e] # "Failed")
    => /\ exitCode = 0
       /\ \A e \in present : mode[e] = OctalValue(permissions) /\ outcome[e] = "Applied"

C5_Witness ==
  /\ Done
  /\ recursive
  /\ exclude_pattern = NoExclude
  /\ present = Below(MaxDepth)
  /\ permissions = <<"7", "5", "5">>
  /\ exitCode = 0
  /\ \A e \in present : mode[e] = 493 /\ ~Untouched(e)

\* C6: in a recursive run with the exclusion pattern sub/** every entry
\* under sub keeps its original mode and is reported Skipped.
C6_RelativePatternExcludesSubtree ==
  (/\ Done
   /\ MainAccepted
   /\ rootKind = "dir"
   /\ recursive
   /\ exclude_pattern = << Line(FALSE, <<"sub", "**">>) >>)
    => \A e \in present :
         "sub" \in ProperAncestors(e) => Untouched(e) /\ outcome[e] \in {"None", "Skipped"}

\* every directory above e can be both listed and searched
AllAncestorsListable(e) ==
  \A a \in ProperAncestors(e) : euid0 \/ (RBit(mode[a]) /\ XBit(mode[a]))

\* C7: a chmod that fails never aborts the traversal: the step that logs the
\* failure raises nothing and drops nothing else from the pending work, and a
\* run that ends without an exception has visited every entry whose ancestors
\* stayed listable, failures or not.
C7_FailureStep ==
  \A e \in Universe :
    (applyCount'[e] = applyCount[e] + 1 /\ outcome'[e] = "Failed")
      => /\ exc' = "none"
         /\ exitCode' # 1
         /\ pendFiles' = pendFiles \ {e}
         /\ pendNames' = pendNames \ {e}
         /\ (e # Root => stack' = stack /\ pc' = pc)

C7_AllReachableVisited ==
  (Done /\ exc = "none" /\ MainAccepted /\ rootKind = "dir" /\ recursive)
    => \A e \in present : AllAncestorsListable(e) => applyCount[e] >= 1

C7_FailureNeverAborts == [][C7_FailureStep]_vars /\ []C7_AllReachableVisited

C7_Witness ==
  /\ Done
  /\ recursive
  /\ present = Below(MaxDepth)
  /\ outcome["sub"] = "Failed"
  /\ \A e \in present \ {"sub"} : outcome[e] = "Applied"

\* C8: when a directory cannot be enumerated after its mode change, the
\* failure is a per-entry Failed outcome, the exit status is non-zero and
\* the run is not aborted.
C8_EnumerationFailureRecorded ==
  (Done /\ recursive /\ enumFailed # {})
    => /\ exc = "none"
       /\ exitCode # 0
       /\ \A d \in enumFailed : outcome[d] = "Failed"

\* C9: a directory is applied before anything in it is applied and before
\* its children are enumerated.  Every step applies one entry, so holding in
\* every state means the directory's apply came strictly earlier.
C9_ParentBeforeChildren ==
  \A e \in Universe :
    /\ (e # Root /\ applyCount[e] > 0) => applyCount[Parent(e)] > 0
    /\ e \in enumerated => applyCount[e] > 0
    /\ (e # Root /\ (e \in pendFiles \/ e \in pendNames)) => Parent(e) \in enumerated

C9_Witness ==
  /\ Done
  /\ present = Below(MaxDepth)
  /\ "deep" \in enumerated
  /\ applyCount["c.txt"] = 1
  /\ applyCount["deep"] = 1

\* C10: no entry is applied twice in one run.
C10_NoDoubleProcessing == \A e \in Universe : applyCount[e] <= 1

C10_Witness ==
  /\ Done
  /\ recursive
  /\ present = Below(MaxDepth)
  /\ enumerated = Dirs \cap present
  /\ \A e \in present : applyCount[e] = 1
====
